---------------------------- MODULE Spec2Model ----------------------------
(***************************************************************************)
(* PHY 3902 experiment 2C, statistics variant (src/unnamed/part_000,       *)
(* lines 93-368): setup(), the run-once loop(), the DAC ramp, the analog   *)
(* sampler with mean / standard deviation, the difference and current      *)
(* error propagation and the CSV record emitted over Serial.  The earlier   *)
(* variants (DAC_LED_experiment_2C.ino, DAC_test_experiment_2B.ino and     *)
(* lines 1-92 of part_000) have the same setup(), latch and ramp loop and  *)
(* take one reading per pin without statistics.                            *)
(*                                                                         *)
(* Numbers.  The affine chain (raw mean, voltage mean, difference,         *)
(* current, DAC code) is computed in exact extended rationals [n, d]:      *)
(* d > 0 is the finite value n/d in lowest terms, [1,0] and [-1,0] are the *)
(* IEEE infinities and [0,0] is NaN.  The values behind a square root      *)
(* (stddev, propagated error, current error) are carried as their IEEE     *)
(* class: "zero", "pos", "neg", "inf", "ninf" or "nan"; the variance under *)
(* the first square root is still computed exactly.  With at most 20       *)
(* readings in 0..1023 none of the float operations of the source          *)
(* overflows or underflows, so the class of the float result is the class  *)
(* of the exact result, and two float means of the same sample count are   *)
(* equal exactly when the exact means are.                                 *)
(***************************************************************************)
EXTENDS Integers, Sequences, FiniteSets, TLC

VARIABLES
    pc,          \* position of the single thread of control
    hasRun,      \* the run-once latch (line 128)
    i,           \* loop index of loop() (line 362)
    serial,      \* lines written to Serial so far (kind, text, n)
    dacLog,      \* codes passed to dac.setVoltage, in order
    adcReads,    \* number of analogRead calls per pin
    delays,      \* number of completed delay(50) calls
    outputVoltage, \* local of acquireAndPrintData (line 304)
    samples,     \* samples argument of the latest readAnalogToVoltage call
    values,      \* the written part of its buffer values[20]
    signalA0, signalA1, signalA2,   \* locals of acquireAndPrintData
    row,         \* fields of the record being emitted by printDataCSVRow
    zeroSeen,    \* some step of this run measured A0-A1 == 0 exactly
    loopCalls    \* completed invocations of loop()

vars == <<pc, hasRun, i, serial, dacLog, adcReads, delays, outputVoltage,
          samples, values, signalA0, signalA1, signalA2, row, zeroSeen,
          loopCalls>>

-----------------------------------------------------------------------------
(* Program constants *)

StepCount == 51
DacFullScale == 4095
DacMapHigh == 51
AdcMax == 1023
BufSize == 20
DefaultSamples == 10
DashCount == 35

(* Bounds of the model *)

MaxLoopCalls == 3     \* invocations of loop() that are followed
MaxDelivery == 6      \* deliveries 0..MaxDelivery are offered to each call
MaxFreeLen == 3       \* calls of up to MaxFreeLen samples get any readings
MaxFreeLevel == 1     \* ... over the raw levels 0..MaxFreeLevel and AdcMax

Pins == {"A0", "A1", "A2"}

-----------------------------------------------------------------------------
(* Extended rational arithmetic.  Each operation binds its operands to   *)
(* values once (a \in {x}) before it uses them, so that the cost of a     *)
(* nested expression stays linear in its size.                            *)

Abs(x) == IF x < 0 THEN -x ELSE x

Sign(x) == IF x < 0 THEN -1 ELSE IF x > 0 THEN 1 ELSE 0

The(S) == CHOOSE v \in S : TRUE

RECURSIVE GCD(_, _)
GCD(x, y) == The({IF b = 0 THEN a ELSE GCD(b, a % b) : a \in {x}, b \in {y}})

NZ(g) == IF g = 0 THEN 1 ELSE g

Norm(x, y) ==
    The({IF d = 0 THEN [n |-> Sign(n), d |-> 0]
         ELSE The({[n |-> Sign(d) * Sign(n) * (Abs(n) \div g), d |-> Abs(d) \div g] :
                   g \in {GCD(Abs(n), Abs(d))}}) :
         n \in {x}, d \in {y}})

R(k) == [n |-> k, d |-> 1]

RNaN == [n |-> 0, d |-> 0]

RNeg(x) == The({[n |-> -a.n, d |-> a.d] : a \in {x}})

RAdd(x, y) ==
    The({IF a.d = 0 \/ b.d = 0
         THEN IF a = RNaN \/ b = RNaN THEN RNaN
              ELSE IF a.d = 0 /\ b.d = 0
                   THEN (IF a.n = b.n THEN a ELSE RNaN)
                   ELSE (IF a.d = 0 THEN a ELSE b)
         ELSE The({Norm(a.n * (l \div a.d) + b.n * (l \div b.d), l) :
                   l \in {(a.d \div GCD(a.d, b.d)) * b.d}}) :
         a \in {x}, b \in {y}})

RSub(x, y) == RAdd(x, RNeg(y))

RMul(x, y) ==
    The({The({Norm((Sign(a.n) * (Abs(a.n) \div g1)) * (Sign(b.n) * (Abs(b.n) \div g2)),
                   (a.d \div g2) * (b.d \div g1)) :
              g1 \in {NZ(GCD(Abs(a.n), b.d))}, g2 \in {NZ(GCD(Abs(b.n), a.d))}}) :
         a \in {x}, b \in {y}})

RInv(x) == The({Norm(a.d, a.n) : a \in {x}})

RDiv(x, y) == RMul(x, RInv(y))

\* float -> int conversion of a finite value: truncation toward zero
Trunc(x) == The({Sign(a.n) * (Abs(a.n) \div a.d) : a \in {x}})

-----------------------------------------------------------------------------
(* IEEE classes of the values behind a square root *)

ClassOf(x) ==
    The({IF a = RNaN THEN "nan"
         ELSE IF a.d = 0 THEN (IF a.n > 0 THEN "inf" ELSE "ninf")
         ELSE IF a.n = 0 THEN "zero"
         ELSE IF a.n > 0 THEN "pos" ELSE "neg" : a \in {x}})

CNeg(x) ==
    The({CASE c = "pos" -> "neg" [] c = "neg" -> "pos"
           [] c = "inf" -> "ninf" [] c = "ninf" -> "inf"
           [] OTHER -> c : c \in {x}})

CSgn(c) == IF c \in {"pos", "inf"} THEN 1 ELSE IF c \in {"neg", "ninf"} THEN -1 ELSE 0

CIsInf(c) == c \in {"inf", "ninf"}

\* sqrt(): NaN for a negative argument, sqrt(0) = 0, sqrt(inf) = inf
CSqrt(x) ==
    The({CASE c = "zero" -> "zero" [] c = "pos" -> "pos" [] c = "inf" -> "inf"
           [] OTHER -> "nan" : c \in {x}})

\* pow(x, 2)
CSq(x) ==
    The({CASE c = "nan" -> "nan" [] c = "zero" -> "zero"
           [] c \in {"pos", "neg"} -> "pos" [] OTHER -> "inf" : c \in {x}})

CMul(x, y) ==
    The({IF a = "nan" \/ b = "nan" THEN "nan"
         ELSE IF (a = "zero" /\ CIsInf(b)) \/ (b = "zero" /\ CIsInf(a)) THEN "nan"
         ELSE IF a = "zero" \/ b = "zero" THEN "zero"
         ELSE IF CIsInf(a) \/ CIsInf(b)
              THEN (IF CSgn(a) * CSgn(b) > 0 THEN "inf" ELSE "ninf")
              ELSE (IF CSgn(a) * CSgn(b) > 0 THEN "pos" ELSE "neg") :
         a \in {x}, b \in {y}})

CDiv(x, y) ==
    The({IF a = "nan" \/ b = "nan" THEN "nan"
         ELSE IF (a = "zero" /\ b = "zero") \/ (CIsInf(a) /\ CIsInf(b)) THEN "nan"
         ELSE IF b = "zero" THEN (IF CSgn(a) > 0 THEN "inf" ELSE "ninf")
         ELSE IF a = "zero" \/ CIsInf(b) THEN "zero"
         ELSE IF CIsInf(a)
              THEN (IF CSgn(a) * CSgn(b) > 0 THEN "inf" ELSE "ninf")
              ELSE (IF CSgn(a) * CSgn(b) > 0 THEN "pos" ELSE "neg") :
         a \in {x}, b \in {y}})

\* Sum of two values of the same sign (the operands in the source are
\* squares, or one of them is the literal 0).
CAdd(x, y) ==
    The({IF a = "nan" \/ b = "nan" THEN "nan"
         ELSE IF CIsInf(a) /\ CIsInf(b) THEN (IF a = b THEN a ELSE "nan")
         ELSE IF CIsInf(a) THEN a
         ELSE IF CIsInf(b) THEN b
         ELSE IF a = "zero" THEN b
         ELSE IF b = "zero" THEN a
         ELSE CASE a = b -> a :
         a \in {x}, b \in {y}})

CSub(x, y) == CAdd(x, CNeg(y))

-----------------------------------------------------------------------------
(* Pure functions of the sketch *)

RESISTOR == [n |-> 2183, d |-> 10]            \* 218.3 Ohm
RESISTOR_TOLERANCE == [n |-> 1, d |-> 200]    \* 0.005

float_map(value, fromLow, fromHigh, toLow, toHigh) ==
    RAdd(toLow, RDiv(RMul(RSub(value, fromLow), RSub(toHigh, toLow)),
                     RSub(fromHigh, fromLow)))

\* The same expression on the class of a value behind a square root.
float_map_class(value, fromLow, fromHigh, toLow, toHigh) ==
    CAdd(ClassOf(toLow),
         CDiv(CMul(CSub(value, ClassOf(fromLow)), ClassOf(RSub(toHigh, toLow))),
              ClassOf(RSub(fromHigh, fromLow))))

propagate_addition_stddev(a, b, stddev_a, stddev_b) ==
    CSqrt(CAdd(CMul(CSq(a), CSq(stddev_a)), CMul(CSq(b), CSq(stddev_b))))

calcDiffStats(a, b) ==
    [diff  |-> RSub(a.mean, b.mean),
     error |-> propagate_addition_stddev(ClassOf(a.mean), ClassOf(b.mean),
                                         a.stddev, b.stddev)]

\* First loop of readAnalogToVoltage: total of the first n readings
RECURSIVE Total(_, _)
Total(readings, n) ==
    IF n = 0 THEN R(0) ELSE RAdd(Total(readings, n - 1), R(readings[n]))

\* Second loop: sum of squared deviations over the first k readings
RECURSIVE SumSq(_, _, _)
SumSq(readings, k, mean) ==
    IF k = 0 THEN R(0)
    ELSE LET dvn == RSub(R(readings[k]), mean)
         IN  RAdd(SumSq(readings, k - 1, mean), RMul(dvn, dvn))

\* variant: the sample variance (division by n - 1)
VarianceBessel(readings, n, mean) == RDiv(SumSq(readings, n, mean), R(n - 1))

\* variance /= samples: the population variance
Variance(readings, n, mean) == RDiv(SumSq(readings, n, mean), R(n))

readAnalogToVoltage(readings, n) ==
    The({LET variance == Variance(vals, n, mean)
             stddev   == CSqrt(ClassOf(variance))
         IN  [mean   |-> float_map(mean, R(0), R(AdcMax), R(0), R(5)),
              stddev |-> float_map_class(stddev, R(0), R(AdcMax), R(0), R(5))] :
         vals \in {readings}, mean \in {RDiv(Total(readings, n), R(n))}})

\* variant: one call site asks for more samples than the buffer holds
CallSamplesOver(pin) == IF pin = "A2" THEN BufSize + 1 ELSE DefaultSamples

\* Sample count at the call sites readA0 / readA1 / readA2 (default argument)
CallSamples(pin) == DefaultSamples

\* variant: the same computation in 16-bit int arithmetic, step * 4095 wraps
setDACVoltageByStepInt16(step) ==
    LET p == ((step * DacFullScale + 32768) % 65536) - 32768
    IN  Sign(p) * (Abs(p) \div DacMapHigh)

\* int outputSignal = float_map(step, 0, 51, 0, 4095).  step * 4095 is exact
\* in float and the quotient is an integer (steps 0, 17, 34) or at least
\* 1/51 away from one, so the float truncation is the exact truncation.
setDACVoltageByStep(step) ==
    Trunc(float_map(R(step), R(0), R(DacMapHigh), R(0), R(DacFullScale)))

Current(diff) == RMul(RDiv(diff, RESISTOR), R(1000))

\* variant: a zero difference is special-cased to an error of 0
CurrentErrorGuarded(current, dV, diff) ==
    IF diff = R(0) THEN "zero"
    ELSE CMul(ClassOf(current),
              CSqrt(CAdd(CSq(CDiv(dV, ClassOf(diff))),
                         CSq(CDiv(ClassOf(RMul(RESISTOR, RESISTOR_TOLERANCE)),
                                  ClassOf(RESISTOR))))))

\* currentError = current * sqrt(pow(dV / diff, 2) + pow(dR / RESISTOR, 2))
CurrentError(current, dV, diff) ==
    LET dR == RMul(RESISTOR, RESISTOR_TOLERANCE)
    IN  CMul(ClassOf(current),
             CSqrt(CAdd(CSq(CDiv(dV, ClassOf(diff))),
                        CSq(CDiv(ClassOf(dR), ClassOf(RESISTOR))))))

\* The thirteen fields of a record, in the order printDataCSVRow prints them
Columns == <<"out", "A0", "dA0", "A1", "dA1", "A2", "dA2",
             "A0_A1", "dA0_A1", "A1_A2", "dA1_A2", "current", "dcurrent">>

printDataCSVRow(ov, a0, a1, a2, a0_a1, a1_a2, current, currentError) ==
    [out |-> ov,
     A0 |-> a0.mean, dA0 |-> a0.stddev,
     A1 |-> a1.mean, dA1 |-> a1.stddev,
     A2 |-> a2.mean, dA2 |-> a2.stddev,
     A0_A1 |-> a0_a1.diff, dA0_A1 |-> a0_a1.error,
     A1_A2 |-> a1_a2.diff, dA1_A2 |-> a1_a2.error,
     current |-> current, dcurrent |-> currentError]

-----------------------------------------------------------------------------
(* Serial lines *)

DashLine(k)  == [kind |-> "dashes", text |-> "-", n |-> k]
TextLine(s)  == [kind |-> "text", text |-> s, n |-> 0]
HeaderLine   == [kind |-> "header",
                 text |-> "out,A0,dA0,A1,dA1,A2,dA2,A0-A1,d(A0-A1),A1-A2,d(A1-A2),current (mA),d(current (mA))",
                 n |-> Len(Columns)]
RowLine(step) == [kind |-> "row", text |-> "", n |-> step]

Banner == <<DashLine(DashCount), TextLine("DAC mounted to 0x62")>>

\* variant: the header of the earlier sketch, where setup() alone prints the banner
printHeaderNoBanner == <<TextLine("Outputting voltage series."), HeaderLine>>

printHeader == Banner \o <<TextLine("Outputting voltage series."), HeaderLine>>

Finished == TextLine("Finished")

-----------------------------------------------------------------------------
(* Control flow *)

\* variants: the latch is not tested, or tested the wrong way round
ShouldRunAlways(latch) == TRUE

ShouldRunInverted(latch) == latch

\* if (!hasRun)
ShouldRun(latch) == ~latch

\* variant: the loop stops one step early
ForCondShort(k) == k < StepCount - 1

\* for (int i = 0; i < 51; i++)
ForCond(k) == k < StepCount

\* variant: A1 is read before A0
AfterReadsSwapped(p) ==
    CASE p = "setDAC" -> "delay1"
      [] p = "delay1" -> "readA1"
      [] p = "readA1" -> "readA0"
      [] p = "readA0" -> "readA2"
      [] p = "readA2" -> "emit"
      [] p = "emit"   -> "delay2"

\* Statement order of acquireAndPrintData
After(p) ==
    CASE p = "setDAC" -> "delay1"
      [] p = "delay1" -> "readA0"
      [] p = "readA0" -> "readA1"
      [] p = "readA1" -> "readA2"
      [] p = "readA2" -> "emit"
      [] p = "emit"   -> "delay2"

\* What the ADC delivers during one readAnalogToVoltage call.  analogRead
\* may return any value of 0..AdcMax at every one of the n readings; the
\* deliveries below are the ones that are followed, numbered so that
\* MaxDelivery says how many of them a call is offered:
\*   0  every reading 0 (pin at ground)
\*   1  every reading AdcMax (pin at the rail)
\*   2  every reading 5
\*   3  4, 6, then 5: the total of delivery 2 with a spread
\*   4  0 and AdcMax in turn: the largest spread there is
\*   5  one reading of 1 in the middle of readings of 0
\*   6  a last reading of 2 after readings of 0
\*   7, 8, ...  readings scattered over the whole range
Delivery(k, n) ==
    [j \in 1..n |->
        CASE k = 0 -> 0
          [] k = 1 -> AdcMax
          [] k = 2 -> 5
          [] k = 3 -> (IF j = 1 THEN 4 ELSE IF j = 2 THEN 6 ELSE 5)
          [] k = 4 -> (IF j % 2 = 1 THEN 0 ELSE AdcMax)
          [] k = 5 -> (IF j = (n + 1) \div 2 THEN 1 ELSE 0)
          [] k = 6 -> (IF j = n THEN 2 ELSE 0)
          [] OTHER -> (397 * k + 211 * j) % (AdcMax + 1)]

Deliveries(n) == {Delivery(k, n) : k \in 0..MaxDelivery}

\* Every sequence of n readings over the raw levels 0..MaxFreeLevel and AdcMax
FreeReadings(n) == [1..n -> (0..MaxFreeLevel) \cup {AdcMax}]

Init ==
    /\ pc = "boot"
    /\ hasRun = FALSE
    /\ i = 0
    /\ serial = <<>>
    /\ dacLog = <<>>
    /\ adcReads = [p \in Pins |-> 0]
    /\ delays = 0
    /\ outputVoltage = R(0)
    /\ samples = 0
    /\ values = <<>>
    /\ signalA0 = <<>>
    /\ signalA1 = <<>>
    /\ signalA2 = <<>>
    /\ row = <<>>
    /\ zeroSeen = FALSE
    /\ loopCalls = 0

\* setup(): Serial.begin, dac.begin, the dashes and the identification line
Setup ==
    /\ pc = "boot"
    /\ serial' = serial \o Banner
    /\ pc' = "idle"
    /\ UNCHANGED <<hasRun, i, dacLog, adcReads, delays, outputVoltage, samples,
                   values, signalA0, signalA1, signalA2, row, zeroSeen, loopCalls>>

\* loop() entered with the latch clear: printHeader() and the for initialiser
LoopStart ==
    /\ pc = "idle"
    /\ loopCalls < MaxLoopCalls
    /\ ShouldRun(hasRun)
    /\ serial' = serial \o printHeader
    /\ i' = 0
    /\ pc' = IF ForCond(0) THEN "setDAC" ELSE "finish"
    /\ UNCHANGED <<hasRun, dacLog, adcReads, delays, outputVoltage, samples,
                   values, signalA0, signalA1, signalA2, row, zeroSeen, loopCalls>>

\* loop() entered with the latch set: the if is skipped and loop() returns
LoopNoop ==
    /\ pc = "idle"
    /\ loopCalls < MaxLoopCalls
    /\ ~ShouldRun(hasRun)
    /\ loopCalls' = loopCalls + 1
    /\ UNCHANGED <<pc, hasRun, i, serial, dacLog, adcReads, delays, outputVoltage,
                   samples, values, signalA0, signalA1, signalA2, row, zeroSeen>>

\* outputVoltage = step / 10.0; setDACVoltageByStep(step)
SetDAC ==
    /\ pc = "setDAC"
    /\ outputVoltage' = RDiv(R(i), R(10))
    /\ dacLog' = Append(dacLog, setDACVoltageByStep(i))
    /\ pc' = After("setDAC")
    /\ UNCHANGED <<hasRun, i, serial, adcReads, delays, samples, values,
                   signalA0, signalA1, signalA2, row, zeroSeen, loopCalls>>

\* delay(50) after the DAC write
Delay1 ==
    /\ pc = "delay1"
    /\ delays' = delays + 1
    /\ pc' = After("delay1")
    /\ UNCHANGED <<hasRun, i, serial, dacLog, adcReads, outputVoltage, samples,
                   values, signalA0, signalA1, signalA2, row, zeroSeen, loopCalls>>

\* The sampling loop of one readAnalogToVoltage(pin, n) call: n analogRead
\* calls fill values[0..n-1].  (n > BufSize would overrun the buffer; no call
\* site passes such an n.)
ReadCall(pin, readings, n) ==
    /\ samples' = n
    /\ values' = readings
    /\ adcReads' = [adcReads EXCEPT ![pin] = @ + n]

ReadA0 ==
    /\ pc = "readA0"
    /\ \E readings \in Deliveries(CallSamples("A0")) :
         /\ ReadCall("A0", readings, CallSamples("A0"))
         /\ signalA0' = readAnalogToVoltage(readings, CallSamples("A0"))
    /\ pc' = After("readA0")
    /\ UNCHANGED <<hasRun, i, serial, dacLog, delays, outputVoltage,
                   signalA1, signalA2, row, zeroSeen, loopCalls>>

ReadA1 ==
    /\ pc = "readA1"
    /\ \E readings \in Deliveries(CallSamples("A1")) :
         /\ ReadCall("A1", readings, CallSamples("A1"))
         /\ signalA1' = readAnalogToVoltage(readings, CallSamples("A1"))
    /\ pc' = After("readA1")
    /\ UNCHANGED <<hasRun, i, serial, dacLog, delays, outputVoltage,
                   signalA0, signalA2, row, zeroSeen, loopCalls>>

ReadA2 ==
    /\ pc = "readA2"
    /\ \E readings \in Deliveries(CallSamples("A2")) :
         /\ ReadCall("A2", readings, CallSamples("A2"))
         /\ signalA2' = readAnalogToVoltage(readings, CallSamples("A2"))
    /\ pc' = After("readA2")
    /\ UNCHANGED <<hasRun, i, serial, dacLog, delays, outputVoltage,
                   signalA0, signalA1, row, zeroSeen, loopCalls>>

\* calcDiffStats twice, current, currentError and printDataCSVRow
Emit ==
    /\ pc = "emit"
    /\ \E a0_a1 \in {calcDiffStats(signalA0, signalA1)},
          a1_a2 \in {calcDiffStats(signalA1, signalA2)} :
         \E current \in {Current(a0_a1.diff)} :
           \E currentError \in {CurrentError(current, a0_a1.error, a0_a1.diff)} :
             /\ row' = printDataCSVRow(outputVoltage, signalA0, signalA1, signalA2,
                                       a0_a1, a1_a2, current, currentError)
             /\ zeroSeen' = (zeroSeen \/ a0_a1.diff = R(0))
    /\ serial' = Append(serial, RowLine(i))
    /\ pc' = After("emit")
    /\ UNCHANGED <<hasRun, i, dacLog, adcReads, delays, outputVoltage, samples,
                   values, signalA0, signalA1, signalA2, loopCalls>>

\* delay(50), return from acquireAndPrintData, i++ and the loop test
Delay2 ==
    /\ pc = "delay2"
    /\ delays' = delays + 1
    /\ i' = i + 1
    /\ pc' = IF ForCond(i + 1) THEN "setDAC" ELSE "finish"
    /\ signalA0' = <<>>
    /\ signalA1' = <<>>
    /\ signalA2' = <<>>
    /\ row' = <<>>
    /\ UNCHANGED <<hasRun, serial, dacLog, adcReads, outputVoltage, samples,
                   values, zeroSeen, loopCalls>>

\* Serial.println("Finished"); hasRun = true; loop() returns
Finish ==
    /\ pc = "finish"
    /\ serial' = Append(serial, Finished)
    /\ hasRun' = TRUE
    /\ loopCalls' = loopCalls + 1
    /\ pc' = "idle"
    /\ UNCHANGED <<i, dacLog, adcReads, delays, outputVoltage, samples, values,
                   signalA0, signalA1, signalA2, row, zeroSeen>>

Next ==
    \/ Setup
    \/ LoopStart
    \/ LoopNoop
    \/ SetDAC
    \/ Delay1
    \/ ReadA0
    \/ ReadA1
    \/ ReadA2
    \/ Emit
    \/ Delay2
    \/ Finish

Spec == Init /\ [][Next]_vars

\* The Arduino core calls setup() once and then loop() forever; every delay
\* and analogRead returns, so the single thread always takes its next step.
FairSpec == Spec /\ WF_vars(Next)

-----------------------------------------------------------------------------
(* Harness for readAnalogToVoltage as a pure function of its readings: the *)
(* initial state draws the sample count and what the ADC will deliver, the *)
(* one action is the call.                                                 *)

SamplerInit ==
    /\ pc = "sample"
    /\ hasRun = FALSE
    /\ i = 0
    /\ serial = <<>>
    /\ dacLog = <<>>
    /\ adcReads = [p \in Pins |-> 0]
    /\ delays = 0
    /\ outputVoltage = R(0)
    /\ samples \in 1..BufSize
    /\ values \in {[j \in 1..samples |-> v] : v \in 0..AdcMax}
                 \cup Deliveries(samples)
                 \cup (IF samples <= MaxFreeLen THEN FreeReadings(samples) ELSE {})
    /\ signalA0 = <<>>
    /\ signalA1 = <<>>
    /\ signalA2 = <<>>
    /\ row = <<>>
    /\ zeroSeen = FALSE
    /\ loopCalls = 0

Sample ==
    /\ pc = "sample"
    /\ signalA0' = readAnalogToVoltage(values, samples)
    /\ adcReads' = [adcReads EXCEPT !["A0"] = @ + samples]
    /\ pc' = "sampled"
    /\ UNCHANGED <<hasRun, i, serial, dacLog, delays, outputVoltage, samples,
                   values, signalA1, signalA2, row, zeroSeen, loopCalls>>

SamplerNext == Sample

SamplerSpec == SamplerInit /\ [][SamplerNext]_vars

-----------------------------------------------------------------------------
(* Properties *)

Rows(k) == [s \in 1..k |-> RowLine(s - 1)]

IsRow(l) == l.kind = "row"

RowsOf(lines) == SelectSeq(lines, IsRow)

InStep == pc \in {"delay1", "readA0", "readA1", "readA2", "emit", "delay2"}

AllConstant(f) == \A k \in DOMAIN f : f[k] = f[1]

\* C1: once hasRun is set, no step changes the DAC writes, the ADC reads,
\* the serial output or the latch: every later loop() call is a no-op.
C1_DoneIsNoop ==
    [][hasRun => (hasRun' /\ dacLog' = dacLog /\ adcReads' = adcReads
                  /\ serial' = serial)]_vars

C1_Witness == hasRun /\ loopCalls >= 2 /\ pc = "idle"

\* C2 as stated: after the first loop() the whole serial output is one
\* separator line, one identification line, the header line, StepCount
\* rows and the completion line, with nothing else in between.
C2_OriginalOutput ==
    hasRun => serial = <<DashLine(DashCount), TextLine("DAC mounted to 0x62"),
                         HeaderLine>>
                       \o Rows(StepCount) \o <<Finished>>

\* C2 amended: the separator and identification lines appear twice (once
\* from setup(), once from printHeader()), followed by the line
\* "Outputting voltage series.", the header line, StepCount rows and the
\* completion line: five lines precede the header, one follows the rows.
C2_AmendedOutput ==
    hasRun => serial = <<DashLine(DashCount), TextLine("DAC mounted to 0x62"),
                         DashLine(DashCount), TextLine("DAC mounted to 0x62"),
                         TextLine("Outputting voltage series."), HeaderLine>>
                       \o Rows(StepCount) \o <<Finished>>

C2_Witness == hasRun /\ Len(serial) = StepCount + 7

\* C3: the rows on the serial output are always those of steps 0, 1, 2, ...
\* in order, without gap or repetition, and a finished run has exactly
\* StepCount of them, whatever was read (zero A0-A1 differences included).
C3_ExactRowCount ==
    /\ RowsOf(serial) = Rows(Len(RowsOf(serial)))
    /\ hasRun => Len(RowsOf(serial)) = StepCount

C3_Witness == hasRun /\ zeroSeen /\ Len(RowsOf(serial)) = StepCount

\* C4 as stated: the code commanded at step k corresponds, to within one
\* code, to the printed output voltage k/10 V (code * 5 / 4095), step 0
\* commands code 0 and the last step commands the full-scale code.
C4_CodeMatchesPrintedVoltage ==
    InStep =>
        LET code == dacLog[Len(dacLog)]
            want == RDiv(RMul(outputVoltage, R(DacFullScale)), R(5))
            off  == RSub(R(code), want)
        IN  /\ off.n <= off.d /\ -off.n <= off.d
            /\ (i = 0 => code = 0)
            /\ (i = StepCount - 1 => code = DacFullScale)

\* C5: when every reading of a call equals v, the returned stddev is zero
\* and the returned mean is v * 5 / 1023.
C5_ConstantReadings ==
    (pc = "sampled" /\ AllConstant(values)) =>
        /\ signalA0.stddev = "zero"
        /\ signalA0.mean = Norm(5 * values[1], AdcMax)

C5_Witness ==
    /\ pc = "sampled" /\ AllConstant(values)
    /\ samples = BufSize /\ values[1] = AdcMax
    /\ signalA0.mean = R(5)

\* C6: inside step i the DAC write comes first, then the settle delay, then
\* the reads of A0, of A1 and of A2, then the one record, then the second
\* delay; no read of a step precedes its DAC write and no DAC write precedes
\* the record of the step before.
C6_StepOrder ==
    LET w  == Len(dacLog)
        r  == Len(RowsOf(serial))
        n  == DefaultSamples
        rd == [p \in Pins |-> adcReads[p]]
    IN  /\ \A p \in Pins : rd[p] <= n * w
        /\ w <= r + 1
        /\ pc = "setDAC" => w = i /\ r = i /\ delays = 2 * i
                            /\ \A p \in Pins : rd[p] = n * i
        /\ pc = "delay1" => w = i + 1 /\ r = i /\ delays = 2 * i
                            /\ \A p \in Pins : rd[p] = n * i
        /\ pc = "readA0" => w = i + 1 /\ r = i /\ delays = 2 * i + 1
                            /\ \A p \in Pins : rd[p] = n * i
        /\ pc = "readA1" => w = i + 1 /\ r = i /\ delays = 2 * i + 1
                            /\ rd["A0"] = n * (i + 1)
                            /\ rd["A1"] = n * i /\ rd["A2"] = n * i
        /\ pc = "readA2" => w = i + 1 /\ r = i /\ delays = 2 * i + 1
                            /\ rd["A0"] = n * (i + 1) /\ rd["A1"] = n * (i + 1)
                            /\ rd["A2"] = n * i
        /\ pc = "emit"   => w = i + 1 /\ r = i /\ delays = 2 * i + 1
                            /\ \A p \in Pins : rd[p] = n * (i + 1)
        /\ pc = "delay2" => w = i + 1 /\ r = i + 1 /\ delays = 2 * i + 1
                            /\ \A p \in Pins : rd[p] = n * (i + 1)

C6_Witness == pc = "delay2" /\ i = 1 /\ delays = 3

\* C7: a run that has not yet executed always reaches the state in which
\* "Finished" has been printed right after the row of the last step and
\* the latch is set.
C7_RunsToCompletion ==
    (pc = "idle" /\ ~hasRun) ~>
        (/\ hasRun
         /\ serial[Len(serial)] = Finished
         /\ serial[Len(serial) - 1] = RowLine(StepCount - 1))

C7_Witness ==
    /\ hasRun
    /\ serial[Len(serial)] = Finished
    /\ serial[Len(serial) - 1] = RowLine(StepCount - 1)

\* C8: every commanded code lies in 0..4095, is the truncation of
\* step * 4095 / 51, and exceeds the code of the step before.
C8_CodesInRangeIncreasing ==
    \A k \in 1..Len(dacLog) :
        /\ dacLog[k] \in 0..DacFullScale
        /\ dacLog[k] = ((k - 1) * DacFullScale) \div DacMapHigh
        /\ k > 1 => dacLog[k - 1] < dacLog[k]

C8_Witness == Len(dacLog) = StepCount /\ dacLog[StepCount] = 4014

\* C9: whenever readAnalogToVoltage has been called, its sample count lies
\* in 1..20 and the buffer indices it used lie in 0..19.
C9_SampleCountBounded ==
    (\E p \in Pins : adcReads[p] > 0) =>
        /\ samples \in 1..BufSize
        /\ Len(values) = samples
        /\ \A k \in DOMAIN values : k - 1 \in 0..(BufSize - 1)

C9_Witness == pc = "emit" /\ samples = DefaultSamples /\ adcReads["A2"] > 0

\* C10: a step whose A0-A1 difference is exactly zero still emits its
\* record, with current 0 and a non-finite current error; steps after it
\* with a non-zero difference get a finite current error, and the run
\* still emits all its rows.
C10_ZeroDiffNotTrapped ==
    /\ (pc = "delay2" /\ row.A0_A1 = R(0)) =>
          /\ row.current = R(0)
          /\ row.dcurrent \in {"nan", "inf", "ninf"}
          /\ serial[Len(serial)] = RowLine(i)
    /\ (pc = "delay2" /\ row.A0_A1 # R(0)) =>
          /\ row.current # R(0)
          /\ row.dcurrent \in {"pos", "neg"}
    /\ (zeroSeen /\ hasRun) => Len(RowsOf(serial)) = StepCount

C10_Witness ==
    /\ pc = "delay2" /\ i = 3
    /\ row.A0_A1 = R(0) /\ row.dcurrent = "nan"
    /\ row.dA0 = "zero" /\ row.dA1 = "pos"

=============================================================================
